---- MODULE Spec2Model ----
(***************************************************************************)
(* Line parser of yapl (src/yapl/src/parser/line.rs) as a state machine.   *)
(* One behaviour is one call of Parser::new(line, _).parse().  The         *)
(* recursion parse_statement -> parse_bracket -> parse_statement is kept   *)
(* as an explicit stack of bracket frames (parts, sent, sent_pos).         *)
(* Stream, SymbolType, the atomic scanners of `unit`, Position and Span    *)
(* are collaborators whose code is outside line.rs; they are modelled from *)
(* their contract.                                                         *)
(***************************************************************************)
EXTENDS Integers, Sequences, FiniteSets, TLC

VARIABLES line, chars, taken, pos, offset, statements, stack, pc, result, last

vars == <<line, chars, taken, pos, offset, statements, stack, pc, result, last>>

(* ------------------------------ bounds -------------------------------- *)

\* Longest line enumerated over the core alphabet.
MaxLen == 4
\* Longest line enumerated over the full alphabet.
MaxShort == 2

(* ----------------------------- constants ------------------------------ *)

\* `as u8` / `-> u8`: shift, size, the whitespace width and the column
\* arithmetic of parse_bracket are 8 bit wide.
U8 == 256
\* Columns a tab occupies (symbol::offset).
TabWidth == 4

(* ------------------------------- input -------------------------------- *)

\* Option<char>::None, what peek()/next() give at the end of the line.
None == "None"

Letters == {"a", "b", "c", "d"}
Core == {" ", "\t", "a", "(", ")", "]", ",", "#"}
Full == Core \cup {"1", "+", "\"", ".", "$", "[", "\n"}

SeqsUpTo(S, n) == UNION {[1..k -> S] : k \in 0..n}

\* The lines the specification names, and lines that put a bracket group at
\* a column other than 0.
Examples ==
    { <<"(", "a", ",", " ", "b", ",", " ", "(", "c", ",", " ", "d", ")", ")">>,
      <<"(", "a", ",", " ", "b", ",", ")">>,
      <<"(", "a", ",", " ", "b", "]">>,
      <<"a", ")">>,
      <<"(", "a", ",", "b", ",", "(", "c", ",", "d", ")", ")">>,
      <<"(", "(", "(", "a", ")", ")", ")">>,
      <<"(", "(", "a", ",", "a", ")", ",", "a", ")">>,
      <<" ", " ", " ", " ", "(", "a", ",", "b", ")">>,
      <<" ", " ", " ", " ", "(", "a", " ", ",", "b", ")">>,
      <<" ", " ", " ", " ", "(", "a", ",", "b", "]">>,
      <<"\t", "\t", "(", "a", ")", " ", "#", " ", "\"", "(">>,
      <<"a", "a", "a", "(", "b", ",", "c", ")">>,
      <<"(", "a", "a", ",", "b", ",", "c", ")">>,
      <<"a", " ", "[", "1", ",", "+", "]", " ", "#", " ", "x">>,
      <<" ", " ", " ", " ", " ", "#", " ", "a">>,
      <<" ", " ", " ", " ", " ", " ", " ", " ", "#", " ", ")">>,
      <<"a", " ", "[", "(", "b", ",", " ", "c", "]">>,
      <<"\"", "a", "\"", " ", "1", "+", "a">> }

Lines == SeqsUpTo(Core, MaxLen) \cup SeqsUpTo(Full, MaxShort) \cup Examples

(* ------------------------ collaborators (contract) -------------------- *)

\* Stream::peek
Peek(s) == IF s = <<>> THEN None ELSE Head(s)

Drop(s, n) == SubSeq(s, n + 1, Len(s))

ST(type, width, bt, open) == [type |-> type, width |-> width, bt |-> bt, open |-> open]

\* SymbolType::from, for a character or for the absence of one.
SymbolType(c) ==
    CASE c = None -> ST("EOS", 0, "-", FALSE)
      [] c = "\n" -> ST("NewLine", 0, "-", FALSE)
      [] c = "." -> ST("Dot", 0, "-", FALSE)
      [] c = "," -> ST("Comma", 0, "-", FALSE)
      [] c = " " -> ST("Whitespace", 1, "-", FALSE)
      [] c = "\t" -> ST("Whitespace", TabWidth, "-", FALSE)
      [] c = "\"" -> ST("Quote", 0, "-", FALSE)
      [] c \in Letters -> ST("Letter", 0, "-", FALSE)
      [] c = "1" -> ST("Digit", 0, "-", FALSE)
      [] c = "+" -> ST("Special", 0, "-", FALSE)
      [] c = "#" -> ST("Inner", 0, "-", FALSE)
      [] c = "(" -> ST("Bracket", 0, "Round", TRUE)
      [] c = ")" -> ST("Bracket", 0, "Round", FALSE)
      [] c = "[" -> ST("Bracket", 0, "Square", TRUE)
      [] c = "]" -> ST("Bracket", 0, "Square", FALSE)
      [] OTHER -> ST("Other", 0, "-", FALSE)

\* Position::mov on the column.
Mov(p, n) == (p + n) % U8

\* Span::new and Span::new_p.
SpanNew(b, e) == [begin |-> b, end |-> e]
new_p(p, n) == SpanNew(p, Mov(p, n))

\* Length of the longest prefix of s whose characters are classified in types.
RECURSIVE Run(_, _)
Run(s, types) ==
    IF s = <<>> \/ SymbolType(Head(s)).type \notin types THEN 0
    ELSE 1 + Run(Tail(s), types)

\* Index of the first quote of s, 0 if there is none.
RECURSIVE QuoteAt(_, _)
QuoteAt(s, i) ==
    IF i > Len(s) THEN 0
    ELSE IF s[i] = "\"" THEN i
    ELSE QuoteAt(s, i + 1)

Stmt(kind, text) == [kind |-> kind, text |-> text]
StNone == Stmt("None", <<>>)
Scan(n, ok, st, msg) == [n |-> n, ok |-> ok, st |-> st, msg |-> msg]

\* unit::chain, unit::int, unit::special: a maximal run; unit::string: from
\* the opening quote through the closing one, failing if there is none.
unit_chain(s) ==
    LET n == Run(s, {"Letter", "Digit"})
    IN Scan(n, TRUE, Stmt("Chain", SubSeq(s, 1, n)), "")
unit_int(s) ==
    LET n == Run(s, {"Digit"})
    IN Scan(n, TRUE, Stmt("LitInt", SubSeq(s, 1, n)), "")
unit_special(s) ==
    LET n == Run(s, {"Special"})
    IN Scan(n, TRUE, Stmt("Special", SubSeq(s, 1, n)), "")
unit_string(s) ==
    LET q == QuoteAt(s, 2)
    IN IF q = 0 THEN Scan(Len(s), FALSE, StNone, "unterminated string")
       ELSE Scan(q, TRUE, Stmt("LitString", SubSeq(s, 2, q - 1)), "")

(* ------------------------------ results ------------------------------- *)

NoSpan == SpanNew(0, 0)
Sentence(stmts, span) == [statements |-> stmts, span |-> span]
Res(kind, msg, span, off, sent) ==
    [kind |-> kind, msg |-> msg, span |-> span, offset |-> off, sentence |-> sent]
Running == Res("Running", "", NoSpan, 0, Sentence(<<>>, NoSpan))
Err(msg, span) == Res("Err", msg, span, 0, Sentence(<<>>, NoSpan))
OkNone == Res("OkNone", "", NoSpan, 0, Sentence(<<>>, NoSpan))
OkSome(off, sent) == Res("OkSome", "", NoSpan, off, sent)
Panicked == Res("Panic", "", NoSpan, 0, Sentence(<<>>, NoSpan))

\* Characters of the line the stream has handed out so far.
Consumed == Len(line) - Len(chars)

NoLast == [valid |-> FALSE, began |-> 0, consumed |-> 0, moved |-> 0,
           st |-> StNone, span |-> NoSpan]

(* --------------------------- u8 arithmetic ---------------------------- *)

Val(v) == [panic |-> FALSE, v |-> v]
Overflow == [panic |-> TRUE, v |-> 0]

\* a - b on u8: an overflow-checked build panics, another one wraps.
SubU8(a, b) ==
    IF a >= b THEN {Val(a - b)} ELSE {Overflow, Val((a - b + U8) % U8)}

\* the sum of u8 widths, with the same two outcomes on overflow.
SumU8(total) ==
    IF total < U8 THEN {Val(total)} ELSE {Overflow, Val(total % U8)}

(* ------------------------------ Parser -------------------------------- *)

RECURSIVE Width(_)
Width(s) == IF s = <<>> THEN 0 ELSE SymbolType(Head(s)).width + Width(Tail(s))

\* parse_whitespace: the whitespace characters it consumes, the width it
\* returns, and whether it stops on a newline (panic!()).
WsTaken(s) == Run(s, {"Whitespace"})
WsOutcomes(s) ==
    LET n == WsTaken(s)
    IN IF SymbolType(Peek(Drop(s, n))).type = "NewLine" THEN {Overflow}
       ELSE SumU8(Width(SubSeq(s, 1, n)))

\* Mutant of Divisible: the indentation is checked against 2 columns.
DivisibleBy2(offset_s) == (offset_s \div 2) * 2 = offset_s

\* parse, line 30-31: offset = offset_s / 4; offset * 4 != offset_s
Divisible(offset_s) == (offset_s \div 4) * 4 = offset_s

Init ==
    /\ line \in Lines
    /\ chars = line
    /\ taken = 0
    /\ pos = 0
    /\ offset = 0
    /\ statements = <<>>
    /\ stack = <<>>
    /\ pc = "parse"
    /\ result = Running
    /\ last = NoLast

\* panic!() / unwrap() on None
Panic ==
    /\ pc' = "done"
    /\ result' = Panicked
    /\ UNCHANGED <<line, chars, taken, pos, offset, statements, stack, last>>

\* parse, lines 28-37
ParseStart ==
    /\ pc = "parse"
    /\ \E w \in WsOutcomes(chars) :
         IF w.panic THEN Panic
         ELSE LET n == WsTaken(chars)
                  shift == (taken + n) % U8
              IN /\ chars' = Drop(chars, n)
                 /\ taken' = 0
                 /\ IF Divisible(w.v)
                    THEN /\ pos' = Mov(pos, shift)
                         /\ offset' = w.v \div 4
                         /\ pc' = "loop"
                         /\ UNCHANGED result
                    ELSE /\ pc' = "done"
                         /\ result' = Err("offset is not divisible by 4", new_p(pos, shift))
                         /\ UNCHANGED <<pos, offset>>
                 /\ UNCHANGED <<line, statements, stack, last>>

\* The top frame of the bracket stack: the parse_bracket call in progress.
Top == stack[Len(stack)]
InBracket == stack # <<>>

\* Mutant of Discarded: Statement::None is kept like any other statement.
KeepNone(st) == FALSE

\* parse line 42 / parse_bracket line 150: Statement::None is not kept.
Discarded(st) == st.kind = "None"

\* The caller of parse_statement keeps the pair: parse lines 42-44 at top
\* level, parse_bracket lines 150-152 in a bracket group.
Deliver(stk, stmts, item) ==
    IF Discarded(item.st) THEN <<stk, stmts>>
    ELSE IF stk = <<>> THEN <<stk, Append(stmts, item)>>
    ELSE <<[stk EXCEPT ![Len(stk)].sent = Append(@, item)], stmts>>

\* parse_statement line 72: size = chars.taken() as u8
StepSize(tk) == tk % U8

\* parse_statement is called with the lookahead c: by the loop of parse
\* (line 40-41) for any character, by the loop of parse_bracket (line 148-149)
\* for anything but a closing bracket and a comma.
Dispatched(type) ==
    /\ pc = "loop"
    /\ chars # <<>>
    /\ SymbolType(Peek(chars)).type = type
    /\ InBracket => ~(type = "Comma" \/ (type = "Bracket" /\ ~SymbolType(Peek(chars)).open))

\* parse_statement lines 72-76 with Ok(st), n characters consumed by the arm,
\* and the caller keeping or dropping the pair.
StatementOk(n, st) ==
    LET size == StepSize(taken + n)
        span == new_p(pos, size)
        d == Deliver(stack, statements, [st |-> st, span |-> span])
    IN /\ chars' = Drop(chars, n)
       /\ taken' = 0
       /\ pos' = Mov(pos, size)
       /\ stack' = d[1]
       /\ statements' = d[2]
       /\ last' = [valid |-> TRUE, began |-> Consumed, consumed |-> n, moved |-> size,
                   st |-> st, span |-> span]
       /\ UNCHANGED <<line, offset, pc, result>>

\* parse_statement lines 72-77 with Err(msg); `?` hands it to parse's caller.
StatementErr(n, msg) ==
    LET size == StepSize(taken + n)
    IN /\ chars' = Drop(chars, n)
       /\ taken' = 0
       /\ pos' = Mov(pos, size)
       /\ pc' = "done"
       /\ result' = Err(msg, new_p(pos, size))
       /\ UNCHANGED <<line, offset, statements, stack, last>>

\* parse_statement line 56
StatementPanic ==
    /\ Dispatched("NewLine")
    /\ Panic

\* parse_statement lines 57-59
StatementUnexpected ==
    /\ \E type \in {"Dot", "Comma", "Other"} : Dispatched(type)
    /\ StatementErr(0, "unexpected symbol")

\* parse_statement lines 60-63
StatementWhitespace ==
    /\ Dispatched("Whitespace")
    /\ \E w \in WsOutcomes(chars) :
         IF w.panic THEN Panic ELSE StatementOk(WsTaken(chars), StNone)

Unit(type, s) ==
    CASE type = "Quote" -> unit_string(s)
      [] type = "Letter" -> unit_chain(s)
      [] type = "Digit" -> unit_int(s)
      [] type = "Special" -> unit_special(s)

\* parse_statement lines 64-67
StatementUnit ==
    \E type \in {"Quote", "Letter", "Digit", "Special"} :
        /\ Dispatched(type)
        /\ LET u == Unit(type, chars)
           IN IF u.ok THEN StatementOk(u.n, u.st) ELSE StatementErr(u.n, u.msg)

\* Mutant of CommentTaken: only the introducer and the space are consumed.
CommentMarkerOnly(s) == 2

\* parse_inner line 97: the comment takes what is left after the introducer
\* and the space.
CommentTaken(s) == Len(s)

\* parse_statement line 68, parse_inner lines 92-103
StatementInner ==
    /\ Dispatched("Inner")
    /\ IF Len(chars) = 1 THEN StatementErr(1, "inner on the end of the line")
       ELSE IF chars[2] = " " THEN StatementOk(CommentTaken(chars), StNone)
       ELSE StatementErr(2, "expected comment")

\* parse_statement line 70
StatementClosing ==
    /\ Dispatched("Bracket")
    /\ ~SymbolType(Peek(chars)).open
    /\ StatementErr(0, "unexpected closing bracket")

\* parse_statement line 69 entering parse_bracket, lines 106-109
BracketOpen ==
    /\ Dispatched("Bracket")
    /\ SymbolType(Peek(chars)).open
    /\ chars' = Tail(chars)
    /\ taken' = taken + 1
    /\ stack' = Append(stack, [t |-> SymbolType(Peek(chars)).bt, parts |-> <<>>,
                               sent |-> <<>>, sent_pos |-> pos, began |-> Consumed])
    /\ UNCHANGED <<line, pos, offset, statements, pc, result, last>>

\* Mutant of Matches: any closing bracket closes the group.
MatchesAny(t, ct) == TRUE

\* parse_bracket line 114
Matches(t, ct) == t = ct

\* parse_bracket lines 119, 126, 135: pos.offset - sent_pos.offset
Region(p, sp) == SubU8(p, sp)

\* parse_bracket line 142: pos.offset - sent_pos.offset - sent_pos.offset
CommaRegion(p, sp) ==
    UNION { IF a.panic THEN {a} ELSE SubU8(a.v, sp) : a \in SubU8(p, sp) }

\* The loop of parse_bracket has a closing bracket in the lookahead.
AtCloser ==
    /\ pc = "loop"
    /\ InBracket
    /\ SymbolType(Peek(chars)).type = "Bracket"
    /\ ~SymbolType(Peek(chars)).open

\* parse_bracket lines 113-122, then parse_statement lines 72-76 of the step
\* that opened the group, then its caller.
BracketClose ==
    /\ AtCloser
    /\ Matches(Top.t, SymbolType(Peek(chars)).bt)
    /\ \E r \in Region(pos, Top.sent_pos) :
         IF Top.sent # <<>> /\ r.panic THEN Panic
         ELSE LET parts == IF Top.sent # <<>>
                           THEN Append(Top.parts, Sentence(Top.sent, new_p(Top.sent_pos, r.v)))
                           ELSE Top.parts
                  st == [kind |-> "Bracket", t |-> Top.t, parts |-> parts]
                  size == StepSize(taken + 1)
                  span == new_p(pos, size)
                  d == Deliver(SubSeq(stack, 1, Len(stack) - 1), statements,
                               [st |-> st, span |-> span])
              IN /\ chars' = Tail(chars)
                 /\ taken' = 0
                 /\ pos' = Mov(pos, size)
                 /\ stack' = d[1]
                 /\ statements' = d[2]
                 /\ last' = [valid |-> TRUE, began |-> Top.began,
                             consumed |-> Consumed + 1 - Top.began, moved |-> size,
                             st |-> st, span |-> span]
                 /\ UNCHANGED <<line, offset, pc, result>>

\* parse_bracket lines 123-128
BracketMismatch ==
    /\ AtCloser
    /\ ~Matches(Top.t, SymbolType(Peek(chars)).bt)
    /\ \E r \in Region(pos, Top.sent_pos) :
         IF r.panic THEN Panic
         ELSE /\ pc' = "done"
              /\ result' = Err("wrong closing bracket", new_p(Top.sent_pos, r.v))
              /\ UNCHANGED <<line, chars, taken, pos, offset, statements, stack, last>>

\* parse_bracket lines 130-147
BracketComma ==
    /\ pc = "loop"
    /\ InBracket
    /\ SymbolType(Peek(chars)).type = "Comma"
    /\ IF Top.sent = <<>>
       THEN \E r \in Region(pos, Top.sent_pos) :
              IF r.panic THEN Panic
              ELSE /\ chars' = Tail(chars)
                   /\ taken' = taken + 1
                   /\ pc' = "done"
                   /\ result' = Err("empty last part", new_p(Top.sent_pos, r.v))
                   /\ UNCHANGED <<line, pos, offset, statements, stack, last>>
       ELSE \E r \in CommaRegion(pos, Top.sent_pos) :
              IF r.panic THEN Panic
              ELSE /\ chars' = Tail(chars)
                   /\ taken' = taken + 1
                   /\ stack' = [stack EXCEPT ![Len(stack)] =
                                  [@ EXCEPT !.parts = Append(@, Sentence(Top.sent,
                                                              new_p(Top.sent_pos, r.v))),
                                            !.sent = <<>>,
                                            !.sent_pos = pos]]
                   /\ UNCHANGED <<line, pos, offset, statements, pc, result, last>>

\* parse_bracket lines 148-149: next.unwrap() when the line has ended
BracketEnd ==
    /\ pc = "loop"
    /\ InBracket
    /\ chars = <<>>
    /\ Panic

\* parse lines 40, 47-51: the loop ends with the line
ParseReturn ==
    /\ pc = "loop"
    /\ ~InBracket
    /\ chars = <<>>
    /\ pc' = "done"
    /\ result' = IF Len(statements) = 0 THEN OkNone
                 ELSE OkSome(offset, Sentence(statements,
                          SpanNew(statements[1].span.begin,
                                  statements[Len(statements)].span.end)))
    /\ UNCHANGED <<line, chars, taken, pos, offset, statements, stack, last>>

Next ==
    \/ ParseStart
    \/ StatementPanic
    \/ StatementUnexpected
    \/ StatementWhitespace
    \/ StatementUnit
    \/ StatementInner
    \/ StatementClosing
    \/ BracketOpen
    \/ BracketClose
    \/ BracketMismatch
    \/ BracketComma
    \/ BracketEnd
    \/ ParseReturn

Spec == Init /\ [][Next]_vars

(* ------------------------------ claims -------------------------------- *)

Done == pc = "done"
NoNewline == \A i \in 1..Len(line) : line[i] # "\n"
\* The leading whitespace of the line: its characters and its summed width.
LeadChars == WsTaken(line)
LeadWidth == Width(SubSeq(line, 1, LeadChars))
\* The line is whitespace, then nothing or a well-formed comment.
BlankOrComment ==
    LET rest == Drop(line, LeadChars)
    IN rest = <<>> \/ (Len(rest) >= 2 /\ rest[1] = "#" /\ rest[2] = " ")
IsErr(msg) == result.kind = "Err" /\ result.msg = msg
SpanCovers(s) ==
    s.statements # <<>> =>
        /\ s.span.begin = s.statements[1].span.begin
        /\ s.span.end = s.statements[Len(s.statements)].span.end

\* C1: when the comma of an open bracket group has just been consumed and
\* the lookahead is the closing bracket of that group (a trailing comma, as
\* in `(a, b,)`), the step parse takes returns Error "empty last part".
C1_TrailingCommaIsError ==
    [][ ( /\ pc = "loop"
          /\ InBracket
          /\ Consumed >= 1
          /\ line[Consumed] = ","
          /\ Top.sent = <<>>
          /\ SymbolType(Peek(chars)).type = "Bracket"
          /\ ~SymbolType(Peek(chars)).open
          /\ SymbolType(Peek(chars)).bt = Top.t )
        => (result'.kind = "Err" /\ result'.msg = "empty last part") ]_vars

\* C2 as stated: every newline-free line that is only whitespace and/or a
\* well-formed comment is parsed to Ok(None), whatever the width of its
\* leading whitespace.
C2_BlankLineIsNone ==
    (Done /\ NoNewline /\ BlankOrComment) => result = OkNone

\* C2 amended: every newline-free line that is only whitespace and/or a
\* well-formed comment and whose leading whitespace has a summed width that
\* is a multiple of 4 (and fits the 8-bit width counter) is parsed to Ok(None).
C2_AlignedBlankLineIsNone ==
    (Done /\ NoNewline /\ BlankOrComment /\ LeadWidth % 4 = 0 /\ LeadWidth < U8)
        => result = OkNone

\* C2 witness: an indented comment-only line has been parsed to Ok(None).
C2_Witness ==
    /\ Done
    /\ NoNewline
    /\ BlankOrComment
    /\ LeadWidth = 4
    /\ Len(line) > LeadChars + 2
    /\ result = OkNone

\* C3: a line whose leading whitespace has a summed width that is not a
\* multiple of 4 is rejected with Error "offset is not divisible by 4", whose
\* span starts at column 0 and is as long as the leading whitespace
\* characters, and no statement has been dispatched.
C3_IndentationError ==
    (Done /\ NoNewline /\ LeadWidth % 4 # 0) =>
        /\ result = Err("offset is not divisible by 4", SpanNew(0, LeadChars))
        /\ Consumed = LeadChars
        /\ statements = <<>>
        /\ stack = <<>>
        /\ ~last.valid

\* C3 witness: tabs and spaces of width 9 in 3 characters, followed by a
\* statement, have been rejected.
C3_Witness ==
    /\ Done
    /\ LeadChars = 3
    /\ LeadWidth = 9
    /\ Len(line) > LeadChars
    /\ IsErr("offset is not divisible by 4")
    /\ result.span = SpanNew(0, 3)

\* C4: parsing `(a, b, (c, d))` succeeds with a single top-level Bracket
\* statement of two parts, the second of which is a Bracket statement of two
\* parts.
C4_NestedBrackets ==
    (Done /\ line = <<"(", "a", ",", " ", "b", ",", " ", "(", "c", ",", " ", "d", ")", ")">>) =>
        /\ result.kind = "OkSome"
        /\ Len(result.sentence.statements) = 1
        /\ LET top == result.sentence.statements[1].st
           IN /\ top.kind = "Bracket"
              /\ Len(top.parts) = 2
              /\ Len(top.parts[2].statements) = 1
              /\ top.parts[2].statements[1].st.kind = "Bracket"
              /\ Len(top.parts[2].statements[1].st.parts) = 2

\* C5: every non-empty Sentence, the top-level one of the Line and every
\* part of every Bracket, spans from the start of its first statement to the
\* end of its last statement.
C5_SentenceSpan ==
    /\ result.kind = "OkSome" => SpanCovers(result.sentence)
    /\ \A i \in 1..Len(stack) : \A j \in 1..Len(stack[i].parts) :
           SpanCovers(stack[i].parts[j])
    /\ (last.valid /\ last.st.kind = "Bracket") =>
           \A j \in 1..Len(last.st.parts) : SpanCovers(last.st.parts[j])

\* C6: when a bracket group of kind K is open and the lookahead is a closing
\* bracket of another kind, parse returns Error "wrong closing bracket" whose
\* span runs from where the in-progress sentence began to the current
\* Position, and the closing bracket is not consumed.
C6_WrongClosingBracket ==
    [][ ( /\ pc = "loop"
          /\ InBracket
          /\ SymbolType(Peek(chars)).type = "Bracket"
          /\ ~SymbolType(Peek(chars)).open
          /\ SymbolType(Peek(chars)).bt # Top.t )
        => /\ pc' = "done"
           /\ result' = Err("wrong closing bracket", SpanNew(Top.sent_pos, pos))
           /\ chars' = chars ]_vars

\* C6 witness: the error has been returned for a sentence that began after
\* column 0, inside a nested group.
C6_Witness ==
    /\ Done
    /\ IsErr("wrong closing bracket")
    /\ Len(stack) >= 2
    /\ result.span.begin > 0
    /\ result.span.end > result.span.begin
    /\ Peek(chars) = "]"

\* The lookahead is a comment introducer followed by a space.
CommentAhead ==
    pc = "loop" /\ Len(chars) >= 2 /\ chars[1] = "#" /\ chars[2] = " "

\* The line holds a comment introducer and a space right after its first n
\* characters.
CommentAheadAt(n) ==
    Len(line) >= n + 2 /\ line[n + 1] = "#" /\ line[n + 2] = " "

\* C7: a dispatch that reaches a comment introducer followed by a space
\* consumes the rest of the line and yields Statement::None, whatever
\* follows; the statements parsed before it stay as they are and are what
\* parse returns, and a line that is only such a comment after valid
\* indentation gives no statement.
C7_CommentTakesRest ==
    /\ [][ CommentAhead =>
             /\ chars' = <<>>
             /\ last'.valid
             /\ last'.st = StNone
             /\ last'.began = Consumed
             /\ statements' = statements
             /\ stack' = stack
             /\ pc' = "loop" ]_vars
    /\ [][ (pc = "loop" /\ ~InBracket /\ chars = <<>>) =>
             /\ pc' = "done"
             /\ statements = <<>> => result' = OkNone
             /\ statements # <<>> =>
                  (result'.kind = "OkSome" /\ result'.sentence.statements = statements) ]_vars
    /\ []((Done /\ NoNewline /\ LeadWidth % 4 = 0 /\ CommentAheadAt(LeadChars)) =>
             result = OkNone)

\* C7 witness: a comment that holds a quote and a bracket has been consumed
\* after a statement, and that statement is what parse returned.
C7_Witness ==
    /\ Done
    /\ result.kind = "OkSome"
    /\ Len(result.sentence.statements) = 1
    /\ last.valid
    /\ last.st = StNone
    /\ line[last.began + 1] = "#"
    /\ last.consumed = 4
    /\ line[Len(line)] = "("
    /\ line[Len(line) - 1] = "\""

\* C8: the span of every dispatch step, Bracket steps and nested steps
\* included, starts at the column where the step began and is as long as the
\* characters consumed since then, and Position moves by that amount.
C8_StepSpan ==
    last.valid =>
        /\ last.span.begin = last.began
        /\ last.span.end = last.began + last.consumed
        /\ last.moved = last.consumed

\* C9: when a comma closes a non-empty in-progress sentence, the Sentence
\* appended to parts spans from sent_pos to the current Position, and the
\* length computation does not underflow.
C9_CommaSpan ==
    [][ ( /\ pc = "loop"
          /\ InBracket
          /\ Peek(chars) = ","
          /\ Top.sent # <<>> )
        => /\ result'.kind # "Panic"
           /\ Len(stack') = Len(stack)
           /\ stack'[Len(stack)].parts =
                Append(Top.parts, Sentence(Top.sent, SpanNew(Top.sent_pos, pos))) ]_vars

\* C10: for every line without a newline character parse returns a value
\* and never reaches the fatal fault, also when the line ends inside an open
\* bracket group.
C10_NoFault ==
    NoNewline => result.kind # "Panic"
====
